---- MODULE Spec2Model ----
(***************************************************************************)
(* Model of src/AI.py: the rule-based IrrigationDecisionEngine, its        *)
(* process-wide decision log and the history view over that log.           *)
(*                                                                         *)
(* Number representation (all integers):                                   *)
(*   moisture, pH                    tenths        (42.5 % is 425)         *)
(*   growth_stage_factor             tenths        (0.7 is 7)              *)
(*   stage-adjusted moisture bounds  thousandths   (42.0 % is 42000)       *)
(*   irrigation amount and duration  thousandths   (30.0 mm is 30000)      *)
(*   evapotranspiration              thousandths of a mm per day           *)
(*   everything else                 units                                 *)
(* Python strings on which the code computes (crop_type, which is          *)
(* lower-cased) are sequences of one-character strings; strings that are   *)
(* only compared or used as dictionary keys are TLA+ strings.              *)
(***************************************************************************)
EXTENDS Integers, Sequences, FiniteSets, TLC

VARIABLES
    decision_log,   \* engine.decision_log: the list of responses
    log_args,       \* history: log_args[i] are the arguments of the call that appended decision_log[i]
    pc,             \* per request thread: position inside analyze
    frame,          \* per request thread: the locals of the running analyze call
    returned,       \* history: the responses returned by completed analyze calls, in return order
    raised,         \* history: number of analyze calls that raised
    now,            \* datetime.now(), as the number of clock reads made so far
    history         \* get_decision_history: the response being built or last sent, or NoHistory

vars == <<decision_log, log_args, pc, frame, returned, raised, now, history>>

----------------------------------------------------------------------------
(* Bounds of the model *)

MaxCalls == 3       \* analyze calls started in one behaviour of Spec
MaxLimit == 2       \* largest ?limit= of the history view

----------------------------------------------------------------------------
(* Python values *)

PyNone == [type |-> "NoneType"]
PyStr(chars) == [type |-> "str", chars |-> chars]

UpperCase == <<"A","B","C","D","E","F","G","H","I","J","K","L","M",
               "N","O","P","Q","R","S","T","U","V","W","X","Y","Z">>
LowerCase == <<"a","b","c","d","e","f","g","h","i","j","k","l","m",
               "n","o","p","q","r","s","t","u","v","w","x","y","z">>

\* str.lower() on one character
LowerChar(c) ==
    IF \E i \in DOMAIN UpperCase : UpperCase[i] = c
    THEN LowerCase[CHOOSE i \in DOMAIN UpperCase : UpperCase[i] = c]
    ELSE c

\* str.lower()
lower(chars) == [i \in DOMAIN chars |-> LowerChar(chars[i])]

\* dict.get(key, default)
DictGet(d, key, default) == IF key \in DOMAIN d THEN d[key] ELSE default

\* max(0, x)
Max0(x) == IF x > 0 THEN x ELSE 0

Min(a, b) == IF a < b THEN a ELSE b

\* x in list
SeqContains(s, x) == \E i \in DOMAIN s : s[i] = x

\* set(list)
SeqToSet(s) == {s[i] : i \in DOMAIN s}

\* list[start:] for any integer start, as Python's slice does it
SliceFrom(s, start) ==
    LET n == Len(s)
        lo == IF start < 0 THEN Max0(n + start) ELSE Min(start, n)
    IN  SubSeq(s, lo + 1, n)

----------------------------------------------------------------------------
(* CROP_PROFILES *)

K_tomato  == <<"t","o","m","a","t","o">>
K_maize   == <<"m","a","i","z","e">>
K_potato  == <<"p","o","t","a","t","o">>
K_lettuce == <<"l","e","t","t","u","c","e">>
K_default == <<"d","e","f","a","u","l","t">>

CROP_PROFILES ==
    (K_tomato :> [name |-> "Tomato",
        moisture_optimal_min |-> 600, moisture_optimal_max |-> 800,
        moisture_critical_min |-> 400, moisture_critical_max |-> 900,
        ph_optimal_min |-> 60, ph_optimal_max |-> 68,
        nitrogen_min |-> 100, phosphorus_min |-> 40, potassium_min |-> 150,
        temp_optimal_min |-> 18, temp_optimal_max |-> 28,
        growth_stage_factor |-> [seedling |-> 7, vegetative |-> 10, flowering |-> 12, fruiting |-> 13]])
 @@ (K_maize :> [name |-> "Maize",
        moisture_optimal_min |-> 550, moisture_optimal_max |-> 750,
        moisture_critical_min |-> 350, moisture_critical_max |-> 850,
        ph_optimal_min |-> 58, ph_optimal_max |-> 70,
        nitrogen_min |-> 120, phosphorus_min |-> 50, potassium_min |-> 100,
        temp_optimal_min |-> 20, temp_optimal_max |-> 30,
        growth_stage_factor |-> [seedling |-> 6, vegetative |-> 10, tasseling |-> 14, grain_fill |-> 12]])
 @@ (K_potato :> [name |-> "Potato",
        moisture_optimal_min |-> 650, moisture_optimal_max |-> 850,
        moisture_critical_min |-> 450, moisture_critical_max |-> 900,
        ph_optimal_min |-> 50, ph_optimal_max |-> 65,
        nitrogen_min |-> 110, phosphorus_min |-> 45, potassium_min |-> 180,
        temp_optimal_min |-> 15, temp_optimal_max |-> 24,
        growth_stage_factor |-> [planting |-> 5, vegetative |-> 8, tuber_init |-> 12, bulking |-> 14]])
 @@ (K_lettuce :> [name |-> "Lettuce",
        moisture_optimal_min |-> 700, moisture_optimal_max |-> 850,
        moisture_critical_min |-> 500, moisture_critical_max |-> 900,
        ph_optimal_min |-> 60, ph_optimal_max |-> 70,
        nitrogen_min |-> 80, phosphorus_min |-> 30, potassium_min |-> 120,
        temp_optimal_min |-> 15, temp_optimal_max |-> 20,
        growth_stage_factor |-> [seedling |-> 6, vegetative |-> 10, heading |-> 11]])
 @@ (K_default :> [name |-> "Generic Crop",
        moisture_optimal_min |-> 600, moisture_optimal_max |-> 800,
        moisture_critical_min |-> 400, moisture_critical_max |-> 900,
        ph_optimal_min |-> 60, ph_optimal_max |-> 70,
        nitrogen_min |-> 100, phosphorus_min |-> 40, potassium_min |-> 150,
        temp_optimal_min |-> 18, temp_optimal_max |-> 28,
        growth_stage_factor |-> [default |-> 10]])

\* growth_stage_factor.get(growth_stage, 1.0), in tenths
StageFactor(crop, growth_stage) == DictGet(crop.growth_stage_factor, growth_stage, 10)

\* Rounding of the double-precision product bound * stage_factor, in
\* thousandths: of all products the registry can form, 85 * 1.4 rounds to
\* 118.99999999999999 (below 119) and 85 * 1.1 to 93.50000000000001 (above
\* 93.5); every other product is exact.
FloatRounding(bound, factor) ==
    IF bound = 850 /\ factor = 14 THEN -1
    ELSE IF bound = 850 /\ factor = 11 THEN 1
    ELSE 0

\* bound * stage_factor as the code computes it, in thousandths
StageAdjusted(bound, factor) == bound * factor * 10 + FloatRounding(bound, factor)

----------------------------------------------------------------------------
(* The analysis steps of IrrigationDecisionEngine *)

\* _analyze_moisture with "moisture < optimal_max" for "moisture <= optimal_max"
Mutant_analyze_moisture_strict(moisture, crop, growth_stage) ==
    LET stage_factor == StageFactor(crop, growth_stage)
        optimal_min == StageAdjusted(crop.moisture_optimal_min, stage_factor)
        optimal_max == StageAdjusted(crop.moisture_optimal_max, stage_factor)
    IN  IF moisture < crop.moisture_critical_min THEN "CRITICALLY_LOW"
        ELSE IF moisture * 100 < optimal_min THEN "LOW"
        ELSE IF moisture * 100 < optimal_max THEN "OPTIMAL"
        ELSE IF moisture <= crop.moisture_critical_max THEN "HIGH"
        ELSE "CRITICALLY_HIGH"

\* _analyze_moisture(moisture, crop, growth_stage)
_analyze_moisture(moisture, crop, growth_stage) ==
    LET stage_factor == StageFactor(crop, growth_stage)
        optimal_min == StageAdjusted(crop.moisture_optimal_min, stage_factor)
        optimal_max == StageAdjusted(crop.moisture_optimal_max, stage_factor)
    IN  IF moisture < crop.moisture_critical_min THEN "CRITICALLY_LOW"
        ELSE IF moisture * 100 < optimal_min THEN "LOW"
        ELSE IF moisture * 100 <= optimal_max THEN "OPTIMAL"
        ELSE IF moisture <= crop.moisture_critical_max THEN "HIGH"
        ELSE "CRITICALLY_HIGH"

\* _analyze_weather(weather)
_analyze_weather(weather) ==
    LET rain_prob == DictGet(weather, "rain_probability", 0)
        temp == DictGet(weather, "temperature", 25)
    IN  IF rain_prob > 70 THEN "HEAVY_RAIN_EXPECTED"
        ELSE IF rain_prob > 40 THEN "RAIN_LIKELY"
        ELSE IF temp > 35 THEN "EXTREME_HEAT"
        ELSE IF temp < 5 THEN "EXTREME_COLD"
        ELSE "NORMAL"

\* _analyze_nutrients(n, p, k, crop)
_analyze_nutrients(n, p, k, crop) ==
    LET n_ok == n >= crop.nitrogen_min
        p_ok == p >= crop.phosphorus_min
        k_ok == k >= crop.potassium_min
    IN  IF n_ok /\ p_ok /\ k_ok THEN "ADEQUATE"
        ELSE IF ~n_ok \/ ~p_ok \/ ~k_ok THEN "DEFICIENT"
        ELSE "BORDERLINE"

\* _make_decision with the rain HOLD rule placed before the ALERT rules
Mutant_make_decision_rain_first(moisture, moisture_status, weather_status, rain_prob, crop, alerts) ==
    IF weather_status \in {"HEAVY_RAIN_EXPECTED", "RAIN_LIKELY"} THEN "HOLD"
    ELSE IF moisture_status \in {"CRITICALLY_LOW", "CRITICALLY_HIGH"} THEN "ALERT"
    ELSE IF SeqContains(alerts, "SENSOR_MALFUNCTION") THEN "ALERT"
    ELSE IF moisture_status \in {"OPTIMAL", "HIGH"} THEN "HOLD"
    ELSE IF rain_prob > 60 THEN "HOLD"
    ELSE IF moisture_status = "LOW" /\ rain_prob < 30 THEN "IRRIGATE"
    ELSE "HOLD"

\* _make_decision with the IRRIGATE rule placed before the rain rules and
\* without its rain_prob < 30 condition
Mutant_make_decision_irrigate_first(moisture, moisture_status, weather_status, rain_prob, crop, alerts) ==
    IF moisture_status \in {"CRITICALLY_LOW", "CRITICALLY_HIGH"} THEN "ALERT"
    ELSE IF SeqContains(alerts, "SENSOR_MALFUNCTION") THEN "ALERT"
    ELSE IF moisture_status = "LOW" THEN "IRRIGATE"
    ELSE IF weather_status \in {"HEAVY_RAIN_EXPECTED", "RAIN_LIKELY"} THEN "HOLD"
    ELSE IF moisture_status \in {"OPTIMAL", "HIGH"} THEN "HOLD"
    ELSE IF rain_prob > 60 THEN "HOLD"
    ELSE "HOLD"

\* _make_decision(moisture, moisture_status, weather_status, rain_prob, crop, alerts)
_make_decision(moisture, moisture_status, weather_status, rain_prob, crop, alerts) ==
    IF moisture_status \in {"CRITICALLY_LOW", "CRITICALLY_HIGH"} THEN "ALERT"
    ELSE IF SeqContains(alerts, "SENSOR_MALFUNCTION") THEN "ALERT"
    ELSE IF weather_status \in {"HEAVY_RAIN_EXPECTED", "RAIN_LIKELY"} THEN "HOLD"
    ELSE IF moisture_status \in {"OPTIMAL", "HIGH"} THEN "HOLD"
    ELSE IF rain_prob > 60 THEN "HOLD"
    ELSE IF moisture_status = "LOW" /\ rain_prob < 30 THEN "IRRIGATE"
    ELSE "HOLD"

RECURSIVE SqrtBetween(_, _, _)
\* the largest r in lo..hi with r * r <= x
SqrtBetween(x, lo, hi) ==
    IF lo = hi THEN lo
    ELSE LET mid == (lo + hi + 1) \div 2
         IN  IF mid * mid <= x THEN SqrtBetween(x, mid, hi)
             ELSE SqrtBetween(x, lo, mid - 1)

\* wind ** 0.5 in thousandths, rounded down (wind >= 0)
SqrtMilli(wind) == SqrtBetween(wind * 1000000, 0, 1000 * (wind + 1))

\* _calculate_et(temp, humidity, wind, growth_stage, crop), in thousandths of
\* a mm per day, each intermediate product rounded down:
\*   0.0023 * (temp + 17.8) * (temp - humidity/10) * wind**0.5 * stage_factor * 1.2
_calculate_et(temp, humidity, wind, growth_stage, crop) ==
    LET base_et == (((23 * (10 * temp + 178) * (10 * temp - humidity)) \div 100)
                        * SqrtMilli(wind)) \div 100
        stage_factor == StageFactor(crop, growth_stage)
        et_daily == (base_et * stage_factor * 12) \div 10000
    IN  Max0(et_daily)

\* 'moderate' if 3 <= et_rate <= 7 else ('low' if et_rate < 3 else 'high')
WaterLossRate(et_rate) ==
    IF 3000 <= et_rate /\ et_rate <= 7000 THEN "moderate"
    ELSE IF et_rate < 3000 THEN "low"
    ELSE "high"

\* flow_rate: float = 10.0, the default of _calculate_duration (mm/hour)
flow_rate == 10

\* _calculate_duration(amount_mm): (amount_mm / flow_rate) * 60
_calculate_duration(amount_mm) == (amount_mm * 60) \div flow_rate

\* _next_check_interval(decision, weather)
_next_check_interval(decision, weather) ==
    IF decision = "ALERT" THEN 2
    ELSE IF decision = "IRRIGATE" THEN 12
    ELSE IF weather \in {"HEAVY_RAIN_EXPECTED", "RAIN_LIKELY"} THEN 6
    ELSE 24

\* the irrigation recommendation computed outside the IRRIGATE branch
MutantIrrigationUnconditional(decision, crop, moisture, field_capacity) ==
    LET moisture_deficit == crop.moisture_optimal_max - moisture
        irrigation_amount == moisture_deficit * field_capacity
    IN  [amount |-> irrigation_amount, duration |-> _calculate_duration(irrigation_amount)]

\* analyze, section 8 (IRRIGATION RECOMMENDATION): the amount and the duration,
\* in thousandths; (moisture_deficit / 100) * field_capacity with the deficit
\* in tenths of a percent is moisture_deficit * field_capacity thousandths
IrrigationRecommendation(decision, crop, moisture, field_capacity) ==
    IF decision = "IRRIGATE"
    THEN LET moisture_deficit == crop.moisture_optimal_max - moisture
             irrigation_amount == moisture_deficit * field_capacity
         IN  [amount |-> irrigation_amount, duration |-> _calculate_duration(irrigation_amount)]
    ELSE [amount |-> 0, duration |-> 0]

\* list.append when cond holds
AppendIf(s, cond, x) == IF cond THEN Append(s, x) ELSE s

\* CROP_PROFILES.get(crop_type.lower(), CROP_PROFILES['default']);
\* crop_type.lower() exists only on a str
CanLookup(crop_type) == crop_type.type = "str"
LookupCrop(crop_type) == DictGet(CROP_PROFILES, lower(crop_type.chars), CROP_PROFILES[K_default])

\* The response dictionary analyze builds (the body of analyze up to the log
\* append), for a crop_type that can be looked up; timestamp is the clock
\* reading.  Reasons are modelled by their fixed text, without the numbers
\* formatted into them.
Response(args, timestamp) ==
    LET soil_data == args.soil_data
        weather_data == args.weather_data
        growth_stage == args.growth_stage
        field_capacity == args.field_capacity
        crop == LookupCrop(args.crop_type)
        moisture == DictGet(soil_data, "soil_moisture", 500)
        ph == DictGet(soil_data, "ph", 65)
        nitrogen == DictGet(soil_data, "nitrogen", 100)
        phosphorus == DictGet(soil_data, "phosphorus", 40)
        potassium == DictGet(soil_data, "potassium", 150)
        soil_temp == DictGet(soil_data, "temperature", 22)
        rain_probability == DictGet(weather_data, "rain_probability", 0)
        rain_amount == DictGet(weather_data, "rain_amount_mm", 0)
        temperature == DictGet(weather_data, "temperature", 25)
        humidity == DictGet(weather_data, "humidity", 60)
        wind_speed == DictGet(weather_data, "wind_speed", 5)
        confidence_score == 100
        moisture_status == _analyze_moisture(moisture, crop, growth_stage)
        low == moisture < crop.moisture_critical_min
        high == ~low /\ moisture > crop.moisture_critical_max
        a1 == AppendIf(AppendIf(<<>>, low, "LOW_MOISTURE"), high, "HIGH_MOISTURE")
        r1 == AppendIf(AppendIf(<<>>, low, "Critical: Moisture (min)"), high, "Critical: Moisture (max)")
        weather_status == _analyze_weather(weather_data)
        a2 == AppendIf(a1, rain_probability > 60, "RAIN_EXPECTED")
        r2 == AppendIf(r1, rain_probability > 60, "Rain expected")
        nutrient_status == _analyze_nutrients(nitrogen, phosphorus, potassium, crop)
        a3n == AppendIf(a2, nitrogen < crop.nitrogen_min, "NUTRIENT_DEFICIENCY")
        r3n == AppendIf(r2, nitrogen < crop.nitrogen_min, "Low nitrogen")
        a3p == AppendIf(a3n, phosphorus < crop.phosphorus_min, "NUTRIENT_DEFICIENCY")
        r3p == AppendIf(r3n, phosphorus < crop.phosphorus_min, "Low phosphorus")
        a3 == AppendIf(a3p, potassium < crop.potassium_min, "NUTRIENT_DEFICIENCY")
        r3 == AppendIf(r3p, potassium < crop.potassium_min, "Low potassium")
        ph_bad == ~(crop.ph_optimal_min <= ph /\ ph <= crop.ph_optimal_max)
        a4 == AppendIf(a3, ph_bad, "PH_IMBALANCE")
        r4 == AppendIf(r3, ph_bad, "pH imbalance")
        temp_bad == soil_temp < crop.temp_optimal_min \/ soil_temp > crop.temp_optimal_max
        alerts == AppendIf(a4, temp_bad, "EXTREME_TEMPERATURE")
        r5 == AppendIf(r4, temp_bad, "Soil temp")
        decision == _make_decision(moisture, moisture_status, weather_status,
                                   rain_probability, crop, alerts)
        et_rate == _calculate_et(temperature, humidity, wind_speed, growth_stage, crop)
        irrigation == IrrigationRecommendation(decision, crop, moisture, field_capacity)
        reasons == AppendIf(r5, decision = "IRRIGATE", "Recommended irrigation")
    IN  [timestamp |-> timestamp,
         decision |-> decision,
         confidence |-> confidence_score,
         crop |-> crop.name,
         growth_stage |-> growth_stage,
         analysis |-> [
             soil |-> [moisture |-> moisture,
                       moisture_status |-> moisture_status,
                       ph |-> ph,
                       temperature |-> soil_temp,
                       nutrients |-> [nitrogen |-> nitrogen,
                                      phosphorus |-> phosphorus,
                                      potassium |-> potassium,
                                      status |-> nutrient_status]],
             weather |-> [temperature |-> temperature,
                          humidity |-> humidity,
                          rain_probability |-> rain_probability,
                          rain_amount |-> rain_amount,
                          wind_speed |-> wind_speed,
                          status |-> weather_status],
             evapotranspiration |-> [daily_et_mm |-> et_rate,
                                     water_loss_rate |-> WaterLossRate(et_rate)]],
         alerts |-> SeqToSet(alerts),
         reasons |-> reasons,
         recommendations |-> [
             irrigation_amount_mm |-> irrigation.amount,
             irrigation_duration_minutes |-> irrigation.duration,
             next_check_hours |-> _next_check_interval(decision, weather_status)]]

----------------------------------------------------------------------------
(* Inputs *)

\* the request threads of the served app, each running one handler at a time
Threads == {"t1", "t2"}

NoFrame == [args |-> "none"]
NoHistory == [pc |-> "none"]

CropTypes ==
    { PyStr(K_tomato), PyStr(<<"T","o","m","a","t","o">>), PyStr(<<"M","A","I","Z","E">>),
      PyStr(K_potato), PyStr(<<"L","e","t","t","u","c","e">>), PyStr(K_default),
      PyStr(<<"r","i","c","e">>), PyStr(<<>>), PyNone }

GrowthStages ==
    { "seedling", "vegetative", "flowering", "fruiting", "tasseling", "grain_fill",
      "planting", "tuber_init", "bulking", "heading", "default", "ripening" }

\* every moisture bound of the registry, plain and stage-adjusted, in tenths
MoistureBounds ==
    UNION { LET c == CROP_PROFILES[k] IN
            {c.moisture_critical_min, c.moisture_critical_max}
            \cup UNION { { (c.moisture_optimal_min * c.growth_stage_factor[g]) \div 10,
                           (c.moisture_optimal_max * c.growth_stage_factor[g]) \div 10 }
                         : g \in DOMAIN c.growth_stage_factor }
          : k \in DOMAIN CROP_PROFILES }

\* each bound, half a percent below it and half a percent above it
Moistures == {250} \cup { b + d : b \in MoistureBounds, d \in {-5, 0, 5} }

RainProbabilities == {0, 29, 30, 41, 60, 61, 71}

HealthySoil(m) == [soil_moisture |-> m, ph |-> 65, nitrogen |-> 130, phosphorus |-> 60,
                   potassium |-> 200, temperature |-> 19]
PoorSoil(m) == [soil_moisture |-> m, ph |-> 45, nitrogen |-> 50, phosphorus |-> 20,
                potassium |-> 90, temperature |-> 35]
Forecast(r) == [rain_probability |-> r, rain_amount_mm |-> 0, temperature |-> 25,
                humidity |-> 60, wind_speed |-> 4]

SoilReadings == { HealthySoil(m) : m \in Moistures }
FewSoilReadings ==
    { HealthySoil(m) : m \in {395, 760, 880, 950} }
    \cup { PoorSoil(m) : m \in {300, 500, 760, 950} }
    \cup { [ph |-> 65], [soil_moisture |-> 700] }

Forecasts == { Forecast(r) : r \in RainProbabilities }
FewForecasts ==
    { Forecast(0), Forecast(75),
      [rain_probability |-> 10, rain_amount_mm |-> 0, temperature |-> 40, humidity |-> 30, wind_speed |-> 9],
      [rain_probability |-> 80, rain_amount_mm |-> 12, temperature |-> 2, humidity |-> 90, wind_speed |-> 0],
      [humidity |-> 60] }

Args(soil, weather, crop_type, growth_stage, field_capacity) ==
    [soil_data |-> soil, weather_data |-> weather, crop_type |-> crop_type,
     growth_stage |-> growth_stage, field_capacity |-> field_capacity]

\* field_capacity: none, a partial one and the default 100.0
FieldCapacities == {0, 40, 100}

\* the arguments of the calls of Spec
LogInputs ==
    { Args(HealthySoil(500), Forecast(0), PyStr(K_tomato), "vegetative", 100),
      Args(HealthySoil(760), Forecast(0), PyStr(<<"M","A","I","Z","E">>), "tasseling", 100),
      Args(PoorSoil(300), [humidity |-> 60], PyNone, "vegetative", 100) }

Limits == (-1 .. MaxLimit) \cup {10}

----------------------------------------------------------------------------
(* The engine and the request handlers *)

Init ==
    /\ decision_log = <<>>
    /\ log_args = <<>>
    /\ pc = [t \in Threads |-> "idle"]
    /\ frame = [t \in Threads |-> NoFrame]
    /\ returned = <<>>
    /\ raised = 0
    /\ now = 0
    /\ history = NoHistory

\* analyze calls started so far
Started == Len(returned) + raised + Cardinality({t \in Threads : pc[t] # "idle"})

\* analyze, lines 127-250, on a crop_type that has no lower(): the call raises
\* AttributeError before anything is built or logged
AnalyzeRaise(t, args) ==
    /\ pc[t] = "idle"
    /\ Started < MaxCalls
    /\ ~CanLookup(args.crop_type)
    /\ raised' = raised + 1
    /\ UNCHANGED <<decision_log, log_args, pc, frame, returned, now, history>>

\* AnalyzeBuild with a confidence that is lowered by the size of the log
MutantAnalyzeBuildReadsLog(t, args) ==
    /\ pc[t] = "idle"
    /\ Started < MaxCalls
    /\ CanLookup(args.crop_type)
    /\ frame' = [frame EXCEPT ![t] =
            [args |-> args,
             response |-> [Response(args, now) EXCEPT !.confidence = 100 - Len(decision_log)]]]
    /\ now' = now + 1
    /\ pc' = [pc EXCEPT ![t] = "log"]
    /\ UNCHANGED <<decision_log, log_args, returned, raised, history>>

\* analyze, lines 127-250: the response is built, its timestamp read from the clock
AnalyzeBuild(t, args) ==
    /\ pc[t] = "idle"
    /\ Started < MaxCalls
    /\ CanLookup(args.crop_type)
    /\ frame' = [frame EXCEPT ![t] = [args |-> args, response |-> Response(args, now)]]
    /\ now' = now + 1
    /\ pc' = [pc EXCEPT ![t] = "log"]
    /\ UNCHANGED <<decision_log, log_args, returned, raised, history>>

\* AnalyzeLog with decision_log.insert(0, response) for append
MutantAnalyzeLogInsertsFirst(t) ==
    /\ pc[t] = "log"
    /\ decision_log' = <<frame[t].response>> \o decision_log
    /\ log_args' = <<frame[t].args>> \o log_args
    /\ pc' = [pc EXCEPT ![t] = "return"]
    /\ UNCHANGED <<frame, returned, raised, now, history>>

\* analyze, line 253: self.decision_log.append(response)
AnalyzeLog(t) ==
    /\ pc[t] = "log"
    /\ decision_log' = Append(decision_log, frame[t].response)
    /\ log_args' = Append(log_args, frame[t].args)
    /\ pc' = [pc EXCEPT ![t] = "return"]
    /\ UNCHANGED <<frame, returned, raised, now, history>>

\* analyze, line 255: return response
AnalyzeReturn(t) ==
    /\ pc[t] = "return"
    /\ returned' = Append(returned, frame[t].response)
    /\ frame' = [frame EXCEPT ![t] = NoFrame]
    /\ pc' = [pc EXCEPT ![t] = "idle"]
    /\ UNCHANGED <<decision_log, log_args, raised, now, history>>

\* get_decision_history with ?limit=limit, line 452: the slice of the log is
\* taken (sliced_at records the length of the log at that moment)
get_decision_history(limit) ==
    /\ history.pc # "sliced"
    /\ history' = [pc |-> "sliced",
                   limit |-> limit,
                   decisions |-> SliceFrom(decision_log, -limit),
                   sliced_at |-> Len(decision_log)]
    /\ UNCHANGED <<decision_log, log_args, pc, frame, returned, raised, now>>

\* get_decision_history, line 453: len(engine.decision_log) is read and the
\* response is sent
get_decision_history_total ==
    /\ history.pc = "sliced"
    /\ history' = [pc |-> "sent",
                   limit |-> history.limit,
                   decisions |-> history.decisions,
                   sliced_at |-> history.sliced_at,
                   total |-> Len(decision_log)]
    /\ UNCHANGED <<decision_log, log_args, pc, frame, returned, raised, now>>

\* analyze called once on a fresh engine by a single caller: the whole method
analyze(args) ==
    /\ IF CanLookup(args.crop_type)
       THEN /\ decision_log' = Append(decision_log, Response(args, now))
            /\ log_args' = Append(log_args, args)
            /\ returned' = Append(returned, Response(args, now))
            /\ now' = now + 1
            /\ UNCHANGED raised
       ELSE /\ raised' = raised + 1
            /\ UNCHANGED <<decision_log, log_args, returned, now>>
    /\ UNCHANGED <<pc, frame, history>>

Next ==
    \/ \E t \in Threads, args \in LogInputs : AnalyzeRaise(t, args)
    \/ \E t \in Threads, args \in LogInputs : AnalyzeBuild(t, args)
    \/ \E t \in Threads : AnalyzeLog(t)
    \/ \E t \in Threads : AnalyzeReturn(t)
    \/ \E limit \in Limits : get_decision_history(limit)
    \/ get_decision_history_total

\* request threads interleaving on the shared engine
Spec == Init /\ [][Next]_vars

\* the single call of SpecAnalyze: every moisture and rain probability at the
\* default field capacity, or a few readings and forecasts at every capacity
NextAnalyze ==
    /\ Started = 0
    /\ \/ \E s \in SoilReadings, w \in Forecasts, c \in CropTypes, g \in GrowthStages :
            analyze(Args(s, w, c, g, 100))
       \/ \E s \in FewSoilReadings, w \in FewForecasts, c \in CropTypes, g \in GrowthStages,
             f \in FieldCapacities :
            analyze(Args(s, w, c, g, f))

\* one analyze call on a fresh engine, over all inputs
SpecAnalyze == Init /\ [][NextAnalyze]_vars

----------------------------------------------------------------------------
(* Vocabulary of the properties *)

\* the positions of the decision log
Records == DOMAIN decision_log

\* the registry profile a record names in its crop field
ProfileOf(r) == CHOOSE c \in {CROP_PROFILES[k] : k \in DOMAIN CROP_PROFILES} : c.name = r.crop

Moisture(r) == r.analysis.soil.moisture
MoistureStatus(r) == r.analysis.soil.moisture_status
RainProbability(r) == r.analysis.weather.rain_probability
Amount(r) == r.recommendations.irrigation_amount_mm
Duration(r) == r.recommendations.irrigation_duration_minutes

\* a record without its timestamp
WithoutTimestamp(r) == [k \in DOMAIN r \ {"timestamp"} |-> r[k]]

\* args with weather_data['rain_probability'] set to rain
WithRain(args, rain) ==
    [args EXCEPT !.weather_data =
        [k \in DOMAIN args.weather_data \cup {"rain_probability"} |->
            IF k = "rain_probability" THEN rain ELSE args.weather_data[k]]]

\* rain probabilities above 60
HighRain == {61, 65, 70, 71, 100}

----------------------------------------------------------------------------
(* Properties *)

\* C1: a moisture below the profile's moisture_critical_min is classified
\* CRITICALLY_LOW and decided ALERT, whatever the stage, weather, nutrients,
\* pH, temperature and field capacity.
C1_CriticalLowAlerts ==
    \A i \in Records :
        LET r == decision_log[i] IN
        Moisture(r) < ProfileOf(r).moisture_critical_min
            => MoistureStatus(r) = "CRITICALLY_LOW" /\ r.decision = "ALERT"

\* C1 witness: a critically dry reading on a stage the profile adjusts, with
\* heavy rain forecast and other alerts raised, has been analysed.
C1_Witness ==
    \E i \in Records :
        LET r == decision_log[i] IN
        /\ Moisture(r) < ProfileOf(r).moisture_critical_min
        /\ StageFactor(ProfileOf(r), r.growth_stage) # 10
        /\ RainProbability(r) > 70
        /\ "NUTRIENT_DEFICIENCY" \in r.alerts
        /\ log_args[i].field_capacity # 100

\* C2 as claimed: a moisture inside the stage-adjusted optimal range
\* [optimal_min * factor, optimal_max * factor] is classified OPTIMAL and
\* decided HOLD.
C2_Original ==
    \A i \in Records :
        LET r == decision_log[i]
            c == ProfileOf(r)
            f == StageFactor(c, r.growth_stage)
        IN  (c.moisture_optimal_min * f <= Moisture(r) * 10
                /\ Moisture(r) * 10 <= c.moisture_optimal_max * f)
            => MoistureStatus(r) = "OPTIMAL" /\ r.decision = "HOLD"

\* C2 amended: a moisture that is not below moisture_critical_min and lies
\* inside the stage-adjusted optimal range, the two products taken as the
\* code computes them in double precision, is classified OPTIMAL and decided
\* HOLD.
C2_OptimalHolds ==
    \A i \in Records :
        LET r == decision_log[i]
            c == ProfileOf(r)
            f == StageFactor(c, r.growth_stage)
        IN  (/\ Moisture(r) >= c.moisture_critical_min
             /\ StageAdjusted(c.moisture_optimal_min, f) <= Moisture(r) * 100
             /\ Moisture(r) * 100 <= StageAdjusted(c.moisture_optimal_max, f))
            => MoistureStatus(r) = "OPTIMAL" /\ r.decision = "HOLD"

\* C2 witness: a reading exactly on an adjusted optimal_max (factor other
\* than 1.0) that exceeds moisture_critical_max has been analysed with no
\* rain forecast.
C2_Witness ==
    \E i \in Records :
        LET r == decision_log[i]
            c == ProfileOf(r)
            f == StageFactor(c, r.growth_stage)
        IN  /\ f # 10
            /\ Moisture(r) >= c.moisture_critical_min
            /\ Moisture(r) * 100 = StageAdjusted(c.moisture_optimal_max, f)
            /\ Moisture(r) > c.moisture_critical_max
            /\ RainProbability(r) = 0

\* C3: every record whose decision is not IRRIGATE has irrigation amount 0
\* and irrigation duration 0.
C3_NoIrrigationNoWater ==
    \A i \in Records :
        LET r == decision_log[i] IN
        r.decision # "IRRIGATE" => Amount(r) = 0 /\ Duration(r) = 0

\* C3 witness: a HOLD on a reading below optimal_max, at a field capacity
\* other than the default, has been recorded.
C3_Witness ==
    \E i \in Records :
        LET r == decision_log[i] IN
        /\ r.decision = "HOLD"
        /\ Moisture(r) < ProfileOf(r).moisture_optimal_max
        /\ log_args[i].field_capacity = 40

\* C4: no record with rain_probability above 60 is IRRIGATE, and whenever
\* analyze decided IRRIGATE, the same arguments with only rain_probability
\* replaced by a value above 60 are decided HOLD.
C4_RainHoldsIrrigation ==
    \A i \in Records :
        LET r == decision_log[i] IN
        r.decision = "IRRIGATE"
            => /\ RainProbability(r) <= 60
               /\ \A rain \in HighRain :
                    Response(WithRain(log_args[i], rain), now).decision = "HOLD"

\* C4 witness: an IRRIGATE decision has been recorded at a rain probability
\* just under the threshold of rule 6.
C4_Witness ==
    \E i \in Records :
        decision_log[i].decision = "IRRIGATE" /\ RainProbability(decision_log[i]) = 29

\* C5: the crop lookup of analyze never raises, and a crop_type that matches
\* no registry key gets the default profile.
C5_LookupNeverFails ==
    /\ raised = 0
    /\ \A i \in Records :
        lower(log_args[i].crop_type.chars) \notin DOMAIN CROP_PROFILES
            => decision_log[i].crop = CROP_PROFILES[K_default].name

\* C6: for a limit N >= 0 the history view holds exactly the last
\* min(N, len(log)) records of the log as it was when viewed, most recent
\* last; for N = 0, none.
C6_HistoryIsLastN ==
    (history # NoHistory /\ history.limit >= 0)
        => LET len == history.sliced_at
               n == Min(history.limit, len)
           IN  history.decisions = SubSeq(decision_log, len - n + 1, len)

\* C7: the log is append-only and ordered.  Every step leaves the log alone
\* or appends, at line 253, the response of the call taking the step; the
\* log holds one record for each call that has passed line 253, so its
\* length is the number of completed calls whenever no call is between
\* append and return; and the returned responses are records of the log,
\* each as often as it was returned.
C7_LogAppendOnly ==
    /\ [][\/ decision_log' = decision_log
          \/ \E t \in Threads :
                /\ pc[t] = "log"
                /\ decision_log' = Append(decision_log, frame[t].response)]_vars
    /\ [](/\ Len(decision_log)
                = Len(returned) + Cardinality({t \in Threads : pc[t] = "return"})
          /\ \A k \in DOMAIN returned :
                Cardinality({j \in DOMAIN returned : returned[j] = returned[k]})
                    <= Cardinality({i \in Records : decision_log[i] = returned[k]}))

\* C7 witness: two calls have completed whose appends happened in the
\* opposite order of their builds, and the history view has been read.
C7_Witness ==
    /\ Len(returned) >= 2
    /\ \E i, j \in Records : i < j /\ decision_log[i].timestamp > decision_log[j].timestamp
    /\ history.pc = "sent"

C9_IrrigationPositive ==
    \A i \in Records :
        LET r == decision_log[i] IN
        (r.decision = "IRRIGATE" /\ log_args[i].field_capacity > 0)
            => Amount(r) > 0 /\ Duration(r) > 0

\* C10: LOW_MOISTURE is alerted exactly on CRITICALLY_LOW, HIGH_MOISTURE
\* exactly on CRITICALLY_HIGH, and the decision is ALERT exactly when one of
\* the two is alerted.
C10_AlertsAgree ==
    \A i \in Records :
        LET r == decision_log[i] IN
        /\ ("LOW_MOISTURE" \in r.alerts) <=> (MoistureStatus(r) = "CRITICALLY_LOW")
        /\ ("HIGH_MOISTURE" \in r.alerts) <=> (MoistureStatus(r) = "CRITICALLY_HIGH")
        /\ (r.decision = "ALERT") <=> (r.alerts \cap {"LOW_MOISTURE", "HIGH_MOISTURE"} # {})

====
